---- MODULE Spec2Model ----
(***************************************************************************)
(* terraform-sbom (main.go): the version-inference heuristic, the SBOM     *)
(* builder, the CSV / JSON / XML emitters and the command-line driver, as  *)
(* a state machine over a file system and a sequence of invocations; and   *)
(* the tests of main_test.go that read the JSON and XML files back.        *)
(*                                                                         *)
(* A Go string is modelled as a sequence of one-character strings, so that *)
(* strings.Contains, strings.Split, strings.HasPrefix and the encoders are *)
(* computed character by character.                                        *)
(***************************************************************************)
EXTENDS Integers, Sequences, FiniteSets, TLC

VARIABLES
    modCall,    \* extractVersion: the *tfconfig.ModuleCall it is applied to
    version,    \* extractVersion: the string it returned (NoResult before)
    tfdirs,     \* configPath -> what tfconfig.LoadModule returns for it
    fs,         \* the file system: path -> [exists, data]
    pc,         \* where main() is: init, generate, print, emit, check, exited;
                \* where an emitter test is: test, written, failed, read
    flags,      \* the parsed command line: [verbose, outputFormat, args]
    sbom,       \* main's sbom: [nil, Modules]
    err,        \* main's err: NoErr or the error returned last
    stdout,     \* what this run printed on standard output
    exitCode,   \* Running, or the exit status of the run
    runs,       \* invocations of the binary so far
    fs0,        \* history: the file system when this run started
    io,         \* history: the emitter this run called and how its I/O went
    built,      \* history: configPath -> the SBOMs generateSBOM returned for it
    csvlog,     \* history: path -> the SBOMs written to it as CSV since it was absent
    readBack    \* the emitter tests: the SBOM given and what was parsed back

vars ==
    <<modCall, version, tfdirs, fs, pc, flags, sbom, err, stdout, exitCode,
      runs, fs0, io, built, csvlog, readBack>>

mainVars ==
    <<tfdirs, fs, pc, flags, sbom, err, stdout, exitCode, runs, fs0, io,
      built, csvlog, readBack>>

(***************************************************************************)
(* Bounds of the model.                                                    *)
(***************************************************************************)
\* number of segments a source string is built from (extractVersion inputs)
MaxSeg == 3
\* invocations of the binary in one behaviour
MaxRuns == 3
\* capacity of a bufio.Writer, scaled down from bufio's 4096 bytes so that a
\* header and one row fit and a second row forces a flush
BufSize == 64
\* a failing disk accepts at most this many writes before it fails
MaxOkWrites == 1
\* records of an SBOM that the emitter tests write and read back
MaxMods == 2

(***************************************************************************)
(* Characters with an escape in TLA+ strings.                              *)
(***************************************************************************)
DQ == "\""
LF == "\n"
BS == "\\"
TAB == "\t"
CR == "\r"
\* the control character U+0001, which TLA+ cannot write in a string
SOH == "U+0001"
\* a byte that is not part of any UTF-8 encoding
XFF == "0xFF"
\* the Unicode replacement character U+FFFD
FFFD == "U+FFFD"

NoResult == "no-result"

(***************************************************************************)
(* package strings, as used by main.go                                     *)
(***************************************************************************)
Min(S) == CHOOSE x \in S : \A y \in S : x <= y

\* the positions at which sep occurs in s
Occurs(s, sep) ==
    {i \in 1..(Len(s) - Len(sep) + 1) : SubSeq(s, i, i + Len(sep) - 1) = sep}

\* strings.Contains(s, sep)
Contains(s, sep) == Occurs(s, sep) # {}

\* strings.Index(s, sep), 1-based; 0 when sep does not occur
Index(s, sep) == IF Contains(s, sep) THEN Min(Occurs(s, sep)) ELSE 0

\* strings.HasPrefix(s, prefix)
HasPrefix(s, prefix) ==
    Len(s) >= Len(prefix) /\ SubSeq(s, 1, Len(prefix)) = prefix

\* strings.Split(s, sep) for a non-empty sep: all the pieces between the
\* successive non-overlapping occurrences of sep, scanning from the left
RECURSIVE Split(_, _)
Split(s, sep) ==
    LET m == Index(s, sep) IN
    IF m = 0 THEN <<s>>
    ELSE <<SubSeq(s, 1, m - 1)>> \o Split(SubSeq(s, m + Len(sep), Len(s)), sep)

(***************************************************************************)
(* extractVersion                                                          *)
(***************************************************************************)
RefSep == <<"?", "r", "e", "f", "=">>
DotSlash == <<".", "/">>
DotDotSlash == <<".", ".", "/">>
Local == <<"l", "o", "c", "a", "l">>
NA == <<"N", "/", "A">>

\* extractVersion with the ?ref= rule tried before the explicit version
extractVersionRefFirst(mc) ==
    LET source == mc.Source
        parts == Split(source, RefSep)
    IN  IF Contains(source, RefSep) /\ Len(parts) > 1 THEN parts[2]
        ELSE IF mc.Version # <<>> THEN mc.Version
        ELSE IF HasPrefix(source, DotSlash) \/ HasPrefix(source, DotDotSlash)
             THEN Local
        ELSE NA

\* extractVersion with the "../" prefix forgotten
extractVersionNoParent(mc) ==
    IF mc.Version # <<>> THEN mc.Version
    ELSE
        LET source == mc.Source
            parts == Split(source, RefSep)
        IN  IF Contains(source, RefSep) /\ Len(parts) > 1 THEN parts[2]
            ELSE IF HasPrefix(source, DotSlash) THEN Local
            ELSE NA

extractVersion(mc) ==
    IF mc.Version # <<>> THEN mc.Version
    ELSE
        LET source == mc.Source
            parts == Split(source, RefSep)
        IN  IF Contains(source, RefSep) /\ Len(parts) > 1 THEN parts[2]
            ELSE IF HasPrefix(source, DotSlash) \/ HasPrefix(source, DotDotSlash)
                 THEN Local
            ELSE NA

(***************************************************************************)
(* ModuleInfo and SBOM.  An SBOM value is the sequence sbom.Modules (the   *)
(* nil slice and the empty slice are both <<>>: generateSBOM only builds   *)
(* the nil one).                                                           *)
(***************************************************************************)
ModuleInfo(name, source, ver, config) ==
    [Name |-> name, Source |-> source, Version |-> ver, Config |-> config]

(***************************************************************************)
(* encoding/csv as writeSBOMToCSV uses it: csv.Writer.Write of one record. *)
(***************************************************************************)
Comma == ","
CSVHeader ==
    << <<"C", "o", "n", "f", "i", "g", " ", "P", "a", "t", "h">>,
       <<"M", "o", "d", "u", "l", "e", " ", "N", "a", "m", "e">>,
       <<"S", "o", "u", "r", "c", "e">>,
       <<"V", "e", "r", "s", "i", "o", "n">> >>

\* the record writeSBOMToCSV writes for one module
csvRecord(mod) == <<mod.Config, mod.Name, mod.Source, mod.Version>>

\* csv.Writer.fieldNeedsQuotes
fieldNeedsQuotes(field) ==
    /\ field # <<>>
    /\ \/ field = <<BS, ".">>
       \/ \E i \in 1..Len(field) : field[i] \in {LF, "\r", DQ, Comma}
       \/ field[1] \in {" ", "\t", LF, "\r"}

RECURSIVE csvQuoted(_)
csvQuoted(field) ==
    IF field = <<>> THEN <<>>
    ELSE (IF Head(field) = DQ THEN <<DQ, DQ>> ELSE <<Head(field)>>)
         \o csvQuoted(Tail(field))

csvField(field) ==
    IF fieldNeedsQuotes(field) THEN <<DQ>> \o csvQuoted(field) \o <<DQ>>
    ELSE field

\* the bytes csv.Writer.Write(record) hands to its bufio.Writer
RECURSIVE csvLine(_)
csvLine(record) ==
    IF record = <<>> THEN <<LF>>
    ELSE csvField(Head(record))
         \o (IF Len(record) > 1 THEN <<Comma>> ELSE <<>>)
         \o csvLine(Tail(record))

(***************************************************************************)
(* encoding/json as writeSBOMToJSON uses it: Encoder.Encode with           *)
(* SetIndent("", "  "); HTML escaping is on by default.                    *)
(***************************************************************************)
\* jsonEscape leaving the quotation mark as it is
jsonEscapeQuoteRaw(c) ==
    CASE c = BS  -> <<BS, BS>>
      [] c = LF  -> <<BS, "n">>
      [] c = TAB -> <<BS, "t">>
      [] c = CR  -> <<BS, "r">>
      [] c = "<" -> <<BS, "u", "0", "0", "3", "c">>
      [] c = ">" -> <<BS, "u", "0", "0", "3", "e">>
      [] c = "&" -> <<BS, "u", "0", "0", "2", "6">>
      [] c = SOH -> <<BS, "u", "0", "0", "0", "1">>
      [] c = XFF -> <<BS, "u", "f", "f", "f", "d">>
      [] OTHER   -> <<c>>

jsonEscape(c) ==
    CASE c = DQ  -> <<BS, DQ>>
      [] c = BS  -> <<BS, BS>>
      [] c = LF  -> <<BS, "n">>
      [] c = TAB -> <<BS, "t">>
      [] c = CR  -> <<BS, "r">>
      [] c = "<" -> <<BS, "u", "0", "0", "3", "c">>
      [] c = ">" -> <<BS, "u", "0", "0", "3", "e">>
      [] c = "&" -> <<BS, "u", "0", "0", "2", "6">>
      [] c = SOH -> <<BS, "u", "0", "0", "0", "1">>
      [] c = XFF -> <<BS, "u", "f", "f", "f", "d">>
      [] OTHER   -> <<c>>

RECURSIVE jsonChars(_)
jsonChars(s) ==
    IF s = <<>> THEN <<>> ELSE jsonEscape(Head(s)) \o jsonChars(Tail(s))

jsonString(s) == <<DQ>> \o jsonChars(s) \o <<DQ>>

jsonModule(mod) ==
    <<" ", " ", " ", " ", "{", LF, " ", " ", " ", " ", " ", " ", DQ, "n", "a", "m", "e", DQ, ":", " ">>
    \o jsonString(mod.Name)
    \o <<",", LF, " ", " ", " ", " ", " ", " ", DQ, "s", "o", "u", "r", "c", "e", DQ, ":", " ">>
    \o jsonString(mod.Source)
    \o <<",", LF, " ", " ", " ", " ", " ", " ", DQ, "v", "e", "r", "s", "i", "o", "n", DQ, ":", " ">>
    \o jsonString(mod.Version)
    \o <<",", LF, " ", " ", " ", " ", " ", " ", DQ, "c", "o", "n", "f", "i", "g", DQ, ":", " ">>
    \o jsonString(mod.Config)
    \o <<LF, " ", " ", " ", " ", "}">>

RECURSIVE jsonModules(_)
jsonModules(mods) ==
    IF Len(mods) = 1 THEN jsonModule(mods[1])
    ELSE jsonModule(Head(mods)) \o <<",", LF>> \o jsonModules(Tail(mods))

\* the bytes json.Encoder.Encode(sbom) writes, in one Write
jsonEncode(mods) ==
    IF mods = <<>>
    THEN <<"{", LF, " ", " ", DQ, "m", "o", "d", "u", "l", "e", "s", DQ, ":", " ", "n", "u", "l", "l", LF, "}", LF>>
    ELSE <<"{", LF, " ", " ", DQ, "m", "o", "d", "u", "l", "e", "s", DQ, ":", " ", "[", LF>>
         \o jsonModules(mods)
         \o <<LF, " ", " ", "]", LF, "}", LF>>

(***************************************************************************)
(* encoding/xml as writeSBOMToXML uses it: Encoder.Encode with             *)
(* Indent("", "  ").                                                       *)
(***************************************************************************)
xmlEscape(c) ==
    CASE c = DQ  -> <<"&", "#", "3", "4", ";">>
      [] c = "'" -> <<"&", "#", "3", "9", ";">>
      [] c = "&" -> <<"&", "a", "m", "p", ";">>
      [] c = "<" -> <<"&", "l", "t", ";">>
      [] c = ">" -> <<"&", "g", "t", ";">>
      [] c = LF  -> <<"&", "#", "x", "A", ";">>
      [] c = TAB -> <<"&", "#", "x", "9", ";">>
      [] c = CR  -> <<"&", "#", "x", "D", ";">>
      [] c \in {SOH, XFF} -> <<FFFD>>
      [] OTHER   -> <<c>>

RECURSIVE xmlText(_)
xmlText(s) ==
    IF s = <<>> THEN <<>> ELSE xmlEscape(Head(s)) \o xmlText(Tail(s))

xmlModule(mod) ==
    <<LF, " ", " ", " ", " ", "<", "M", "o", "d", "u", "l", "e", ">">>
    \o <<LF, " ", " ", " ", " ", " ", " ", "<", "N", "a", "m", "e", ">">>
    \o xmlText(mod.Name) \o <<"<", "/", "N", "a", "m", "e", ">">>
    \o <<LF, " ", " ", " ", " ", " ", " ", "<", "S", "o", "u", "r", "c", "e", ">">>
    \o xmlText(mod.Source) \o <<"<", "/", "S", "o", "u", "r", "c", "e", ">">>
    \o <<LF, " ", " ", " ", " ", " ", " ", "<", "V", "e", "r", "s", "i", "o", "n", ">">>
    \o xmlText(mod.Version) \o <<"<", "/", "V", "e", "r", "s", "i", "o", "n", ">">>
    \o <<LF, " ", " ", " ", " ", " ", " ", "<", "C", "o", "n", "f", "i", "g", "P", "a", "t", "h", ">">>
    \o xmlText(mod.Config) \o <<"<", "/", "C", "o", "n", "f", "i", "g", "P", "a", "t", "h", ">">>
    \o <<LF, " ", " ", " ", " ", "<", "/", "M", "o", "d", "u", "l", "e", ">">>

RECURSIVE xmlModules(_)
xmlModules(mods) ==
    IF mods = <<>> THEN <<>> ELSE xmlModule(Head(mods)) \o xmlModules(Tail(mods))

\* the bytes xml.Encoder.Encode(sbom) hands to its bufio.Writer
xmlEncode(mods) ==
    <<"<", "S", "B", "O", "M", ">">>
    \o <<LF, " ", " ", "<", "M", "o", "d", "u", "l", "e", "s", ">">>
    \o xmlModules(mods)
    \o (IF mods = <<>> THEN <<>> ELSE <<LF, " ", " ">>)
    \o <<"<", "/", "M", "o", "d", "u", "l", "e", "s", ">", LF>>
    \o <<"<", "/", "S", "B", "O", "M", ">">>

(***************************************************************************)
(* json.Unmarshal(content, &result) as the test of the JSON emitter calls  *)
(* it, on documents of the shape an SBOM encodes to: an object whose       *)
(* "modules" member is null or an array of objects with string members.    *)
(* Anything else is reported as an error (ok = FALSE).                     *)
(***************************************************************************)
ZeroModule == [Name |-> <<>>, Source |-> <<>>, Version |-> <<>>, Config |-> <<>>]
ParseError(i) == [ok |-> FALSE, val |-> <<>>, next |-> i]

\* the first position at or after i that holds no white space
RECURSIVE skipSpace(_, _)
skipSpace(s, i) ==
    IF i <= Len(s) /\ s[i] \in {" ", LF, TAB, CR} THEN skipSpace(s, i + 1) ELSE i

\* the text lit stands in s at position i
At(s, i, lit) ==
    /\ i + Len(lit) - 1 <= Len(s)
    /\ SubSeq(s, i, i + Len(lit) - 1) = lit

\* the character a \uXXXX escape denotes; <<>> for the ones not modelled
jsonUnicode(hex) ==
    CASE hex = <<"0", "0", "3", "c">> -> <<"<">>
      [] hex = <<"0", "0", "3", "e">> -> <<">">>
      [] hex = <<"0", "0", "2", "6">> -> <<"&">>
      [] hex = <<"0", "0", "0", "1">> -> <<SOH>>
      [] hex = <<"f", "f", "f", "d">> -> <<FFFD>>
      [] OTHER -> <<>>

\* the string literal whose opening quote is before s[i]
RECURSIVE jsonReadString(_, _, _)
jsonReadString(s, i, acc) ==
    IF i > Len(s) THEN ParseError(i)
    ELSE IF s[i] = DQ THEN [ok |-> TRUE, val |-> acc, next |-> i + 1]
    ELSE IF s[i] = BS
    THEN IF i + 1 > Len(s) THEN ParseError(i)
         ELSE IF s[i + 1] = "u"
         THEN IF i + 5 <= Len(s) /\ jsonUnicode(SubSeq(s, i + 2, i + 5)) # <<>>
              THEN jsonReadString(s, i + 6,
                                  acc \o jsonUnicode(SubSeq(s, i + 2, i + 5)))
              ELSE ParseError(i)
         ELSE IF s[i + 1] \in {DQ, BS, "/"}
         THEN jsonReadString(s, i + 2, Append(acc, s[i + 1]))
         ELSE IF s[i + 1] = "n" THEN jsonReadString(s, i + 2, Append(acc, LF))
         ELSE IF s[i + 1] = "t" THEN jsonReadString(s, i + 2, Append(acc, TAB))
         ELSE IF s[i + 1] = "r" THEN jsonReadString(s, i + 2, Append(acc, CR))
         ELSE ParseError(i)
    \* a control character may not stand in a string literal
    ELSE IF s[i] \in {LF, TAB, CR, SOH} THEN ParseError(i)
    \* invalid UTF-8 is read as the replacement character
    ELSE IF s[i] = XFF THEN jsonReadString(s, i + 1, Append(acc, FFFD))
    ELSE jsonReadString(s, i + 1, Append(acc, s[i]))

\* a member is stored in the field whose json tag is its key, else dropped
jsonSetField(mod, key, val) ==
    CASE key = <<"n", "a", "m", "e">> -> [mod EXCEPT !.Name = val]
      [] key = <<"s", "o", "u", "r", "c", "e">> -> [mod EXCEPT !.Source = val]
      [] key = <<"v", "e", "r", "s", "i", "o", "n">> -> [mod EXCEPT !.Version = val]
      [] key = <<"c", "o", "n", "f", "i", "g">> -> [mod EXCEPT !.Config = val]
      [] OTHER -> mod

\* the decoder state st moved to the position at
In(st, at) == [st EXCEPT !.at = at]

\* a token: [ok, kind, val, next], next the position after it
Scanned(kind, val, next) == [ok |-> TRUE, kind |-> kind, val |-> val, next |-> next]
ScanError(i) == [ok |-> FALSE, kind |-> "error", val |-> <<>>, next |-> i]

jsonStringToken(str) ==
    IF str.ok THEN Scanned("string", str.val, str.next) ELSE ScanError(str.next)

\* the scanner: the token that starts at s[i], which is not white space
jsonToken(s, i) ==
    IF s[i] \in {"{", "}", "[", "]", ":", ","} THEN Scanned(s[i], <<>>, i + 1)
    ELSE IF s[i] = DQ THEN jsonStringToken(jsonReadString(s, i + 1, <<>>))
    ELSE IF At(s, i, <<"n", "u", "l", "l">>) THEN Scanned("null", <<>>, i + 4)
    ELSE ScanError(i)

\* the decoder before the first token of a document
JsonStart == [at |-> "doc", key |-> <<>>, cur |-> ZeroModule, mods |-> <<>>]

DecodeError == [ok |-> FALSE, Modules |-> <<>>]

\* the decoder, in state st, reading s from s[i] on: the "{" of the
\* document, the key "modules", its value (null, or an array of objects
\* with string members), and the closing "}"
RECURSIVE jsonWalk(_, _, _)
jsonWalk(s, i, st) ==
    IF skipSpace(s, i) > Len(s) THEN [ok |-> st.at = "end", Modules |-> st.mods]
    ELSE LET t == jsonToken(s, skipSpace(s, i)) IN
         IF ~t.ok THEN DecodeError
         ELSE
         CASE st.at = "doc" /\ t.kind = "{" -> jsonWalk(s, t.next, In(st, "key"))
           [] st.at = "key" /\ t.kind = "string"
                /\ t.val = <<"m", "o", "d", "u", "l", "e", "s">> ->
                jsonWalk(s, t.next, In(st, "colon"))
           [] st.at = "colon" /\ t.kind = ":" -> jsonWalk(s, t.next, In(st, "value"))
           [] st.at = "value" /\ t.kind = "null" -> jsonWalk(s, t.next, In(st, "close"))
           [] st.at = "value" /\ t.kind = "[" -> jsonWalk(s, t.next, In(st, "first"))
           [] st.at = "first" /\ t.kind = "]" -> jsonWalk(s, t.next, In(st, "close"))
           [] st.at \in {"first", "elem"} /\ t.kind = "{" ->
                jsonWalk(s, t.next, [st EXCEPT !.at = "mfirst", !.cur = ZeroModule])
           [] st.at \in {"mfirst", "mkey"} /\ t.kind = "string" ->
                jsonWalk(s, t.next, [st EXCEPT !.at = "mcolon", !.key = t.val])
           [] st.at = "mcolon" /\ t.kind = ":" -> jsonWalk(s, t.next, In(st, "mval"))
           [] st.at = "mval" /\ t.kind = "string" ->
                jsonWalk(s, t.next,
                         [st EXCEPT !.at = "mnext",
                                    !.cur = jsonSetField(st.cur, st.key, t.val)])
           [] st.at = "mnext" /\ t.kind = "," -> jsonWalk(s, t.next, In(st, "mkey"))
           [] st.at \in {"mfirst", "mnext"} /\ t.kind = "}" ->
                jsonWalk(s, t.next,
                         [st EXCEPT !.at = "next", !.mods = Append(st.mods, st.cur)])
           [] st.at = "next" /\ t.kind = "," -> jsonWalk(s, t.next, In(st, "elem"))
           [] st.at = "next" /\ t.kind = "]" -> jsonWalk(s, t.next, In(st, "close"))
           [] st.at = "close" /\ t.kind = "}" -> jsonWalk(s, t.next, In(st, "end"))
           [] OTHER -> DecodeError

\* [ok, Modules]: the Modules of the SBOM that json.Unmarshal fills
jsonUnmarshal(s) == jsonWalk(s, 1, JsonStart)

(***************************************************************************)
(* xml.Unmarshal(content, &result) as the test of the XML emitter calls    *)
(* it, on documents of the shape an SBOM encodes to: start tags without    *)
(* attributes, end tags and character data.  Anything else is reported as  *)
(* an error (ok = FALSE).                                                  *)
(***************************************************************************)
\* the position of character c in s at or after i, Len(s) + 1 if none
RECURSIVE xmlFind(_, _, _)
xmlFind(s, i, c) ==
    IF i > Len(s) \/ s[i] = c THEN i ELSE xmlFind(s, i + 1, c)

\* the character an entity or character reference denotes; <<>> if unknown
xmlEntity(name) ==
    CASE name = <<"#", "3", "4">> -> <<DQ>>
      [] name = <<"#", "3", "9">> -> <<"'">>
      [] name = <<"a", "m", "p">> -> <<"&">>
      [] name = <<"l", "t">> -> <<"<">>
      [] name = <<"g", "t">> -> <<">">>
      [] name = <<"#", "x", "A">> -> <<LF>>
      [] name = <<"#", "x", "9">> -> <<TAB>>
      [] name = <<"#", "x", "D">> -> <<CR>>
      [] OTHER -> <<>>

\* the character data from s[i] up to the next "<" or the end of s
RECURSIVE xmlReadText(_, _, _)
xmlReadText(s, i, acc) ==
    IF i > Len(s) \/ s[i] = "<" THEN [ok |-> TRUE, val |-> acc, next |-> i]
    ELSE IF s[i] = "&"
    THEN LET semi == xmlFind(s, i + 1, ";")
             char == xmlEntity(SubSeq(s, i + 1, semi - 1))
         IN  IF semi > Len(s) \/ char = <<>> THEN ParseError(i)
             ELSE xmlReadText(s, semi + 1, acc \o char)
    \* a character outside XML's character range, or invalid UTF-8
    ELSE IF s[i] \in {SOH, XFF} THEN ParseError(i)
    ELSE xmlReadText(s, i + 1, Append(acc, s[i]))

\* the tag that starts at s[i], which is "<": [ok, name, close, next]
xmlTagFrom(s, i, close, from, gt) ==
    IF gt > Len(s) \/ gt = from
    THEN [ok |-> FALSE, name |-> <<>>, close |-> FALSE, next |-> i]
    ELSE [ok |-> TRUE, name |-> SubSeq(s, from, gt - 1), close |-> close,
          next |-> gt + 1]

xmlReadTag(s, i) ==
    IF At(s, i + 1, <<"/">>) THEN xmlTagFrom(s, i, TRUE, i + 2, xmlFind(s, i + 2, ">"))
    ELSE xmlTagFrom(s, i, FALSE, i + 1, xmlFind(s, i + 1, ">"))

xmlTagToken(tag) ==
    IF tag.ok THEN Scanned(IF tag.close THEN "end" ELSE "start", tag.name, tag.next)
    ELSE ScanError(tag.next)

xmlTextToken(text) ==
    IF text.ok THEN Scanned("text", text.val, text.next) ELSE ScanError(text.next)

\* the scanner: the token that starts at s[i]
xmlToken(s, i) ==
    IF s[i] = "<" THEN xmlTagToken(xmlReadTag(s, i))
    ELSE xmlTextToken(xmlReadText(s, i, <<>>))

\* an element is stored in the field whose xml tag is its name, else dropped
xmlSetField(mod, name, val) ==
    CASE name = <<"N", "a", "m", "e">> -> [mod EXCEPT !.Name = val]
      [] name = <<"S", "o", "u", "r", "c", "e">> -> [mod EXCEPT !.Source = val]
      [] name = <<"V", "e", "r", "s", "i", "o", "n">> -> [mod EXCEPT !.Version = val]
      [] name = <<"C", "o", "n", "f", "i", "g", "P", "a", "t", "h">> ->
            [mod EXCEPT !.Config = val]
      [] OTHER -> mod

\* the decoder before the root element
XmlStart ==
    [at |-> "doc", name |-> <<>>, text |-> <<>>, cur |-> ZeroModule, mods |-> <<>>]

\* the decoder, in state st, reading s from s[i] on: the root <SBOM>, in
\* it <Modules>, in it one <Module> per record, in it one element per
\* field; character data between elements is dropped
IsTag(t, kind, name) == t.kind = kind /\ t.val = name

RECURSIVE xmlWalk(_, _, _)
xmlWalk(s, i, st) ==
    IF i > Len(s) THEN [ok |-> st.at = "end", Modules |-> st.mods]
    ELSE LET t == xmlToken(s, i) IN
         IF ~t.ok THEN DecodeError
         ELSE
         CASE st.at = "field" /\ t.kind = "text" ->
                xmlWalk(s, t.next, [st EXCEPT !.text = st.text \o t.val])
           [] st.at = "field" /\ IsTag(t, "end", st.name) ->
                xmlWalk(s, t.next,
                        [st EXCEPT !.at = "module",
                                   !.cur = xmlSetField(st.cur, st.name, st.text)])
           [] st.at = "field" /\ t.kind # "text" /\ ~IsTag(t, "end", st.name) -> DecodeError
           [] st.at # "field" /\ t.kind = "text" -> xmlWalk(s, t.next, st)
           [] st.at = "doc" /\ IsTag(t, "start", <<"S", "B", "O", "M">>) ->
                xmlWalk(s, t.next, In(st, "sbom"))
           [] st.at = "sbom" /\ IsTag(t, "start", <<"M", "o", "d", "u", "l", "e", "s">>) ->
                xmlWalk(s, t.next, In(st, "modules"))
           [] st.at = "sbom" /\ IsTag(t, "end", <<"S", "B", "O", "M">>) ->
                xmlWalk(s, t.next, In(st, "end"))
           [] st.at = "modules" /\ IsTag(t, "start", <<"M", "o", "d", "u", "l", "e">>) ->
                xmlWalk(s, t.next, [st EXCEPT !.at = "module", !.cur = ZeroModule])
           [] st.at = "modules" /\ IsTag(t, "end", <<"M", "o", "d", "u", "l", "e", "s">>) ->
                xmlWalk(s, t.next, In(st, "sbom"))
           [] st.at = "module" /\ t.kind = "start" ->
                xmlWalk(s, t.next,
                        [st EXCEPT !.at = "field", !.name = t.val, !.text = <<>>])
           [] st.at = "module" /\ IsTag(t, "end", <<"M", "o", "d", "u", "l", "e">>) ->
                xmlWalk(s, t.next,
                        [st EXCEPT !.at = "modules", !.mods = Append(st.mods, st.cur)])
           [] OTHER -> DecodeError

\* [ok, Modules]: the Modules of the SBOM that xml.Unmarshal fills
xmlUnmarshal(s) == xmlWalk(s, 1, XmlStart)

(***************************************************************************)
(* encoding/csv's Reader.ReadAll with its default settings, as the test of *)
(* the CSV emitter reads the file back: [ok, records].  It reports an      *)
(* error (ok = FALSE) for a quote in an unquoted field, for text after a   *)
(* closing quote, for an unterminated quoted field and for a record whose  *)
(* number of fields differs from the first record's; it skips empty lines. *)
(***************************************************************************)
\* the quoted field whose opening quote is before s[i]
RECURSIVE readQuoted(_, _, _)
readQuoted(s, i, acc) ==
    IF i > Len(s) THEN [ok |-> FALSE, val |-> acc, next |-> i]
    ELSE IF s[i] = DQ
         THEN IF i < Len(s) /\ s[i + 1] = DQ
              THEN readQuoted(s, i + 2, Append(acc, DQ))
              ELSE [ok |-> i = Len(s) \/ s[i + 1] \in {Comma, LF},
                    val |-> acc, next |-> i + 1]
    ELSE readQuoted(s, i + 1, Append(acc, s[i]))

\* the unquoted field that starts at s[i]
RECURSIVE readBare(_, _, _)
readBare(s, i, acc) ==
    IF i > Len(s) \/ s[i] \in {Comma, LF}
    THEN [ok |-> TRUE, val |-> acc, next |-> i]
    ELSE IF s[i] = DQ THEN [ok |-> FALSE, val |-> acc, next |-> i]
    ELSE readBare(s, i + 1, Append(acc, s[i]))

\* the record that starts at s[i], after the fields already read of it
RECURSIVE readRecord(_, _, _)
readRecord(s, i, fields) ==
    LET f == IF i <= Len(s) /\ s[i] = DQ
             THEN readQuoted(s, i + 1, <<>>)
             ELSE readBare(s, i, <<>>)
    IN  IF ~f.ok THEN [ok |-> FALSE, fields |-> fields, next |-> f.next]
        ELSE IF f.next > Len(s)
             THEN [ok |-> TRUE, fields |-> Append(fields, f.val), next |-> f.next]
        ELSE IF s[f.next] = LF
             THEN [ok |-> TRUE, fields |-> Append(fields, f.val), next |-> f.next + 1]
        ELSE readRecord(s, f.next + 1, Append(fields, f.val))

RECURSIVE readAllFrom(_, _, _)
readAllFrom(s, i, records) ==
    IF i > Len(s) THEN [ok |-> TRUE, records |-> records]
    ELSE IF s[i] = LF THEN readAllFrom(s, i + 1, records)
    ELSE LET r == readRecord(s, i, <<>>) IN
         IF ~r.ok \/ (records # <<>> /\ Len(r.fields) # Len(records[1]))
         THEN [ok |-> FALSE, records |-> <<>>]
         ELSE readAllFrom(s, r.next, Append(records, r.fields))

ReadAll(s) == readAllFrom(s, 1, <<>>)

(***************************************************************************)
(* strings.ToLower, on the letters of the format names.                    *)
(***************************************************************************)
UpperCase == <<"C", "S", "V", "J", "O", "N", "X", "M", "L", "Y", "A">>
LowerCase == <<"c", "s", "v", "j", "o", "n", "x", "m", "l", "y", "a">>

toLowerChar(c) ==
    IF \E i \in 1..Len(UpperCase) : UpperCase[i] = c
    THEN LowerCase[CHOOSE i \in 1..Len(UpperCase) : UpperCase[i] = c]
    ELSE c

ToLower(s) == [i \in 1..Len(s) |-> toLowerChar(s[i])]

(***************************************************************************)
(* The file system and the faults of its operations.  A fault says whether *)
(* opening the file fails and how many file writes succeed before writes   *)
(* start to fail (Unlimited: none fails).  A failed write adds nothing.    *)
(***************************************************************************)
Unlimited == -1
NoFile == [exists |-> FALSE, data |-> <<>>]
File(data) == [exists |-> TRUE, data |-> data]

NoFault == [open |-> FALSE, writes |-> Unlimited]
Faults ==
    {NoFault, [open |-> TRUE, writes |-> Unlimited]}
    \cup {[open |-> FALSE, writes |-> k] : k \in 0..MaxOkWrites}

\* fileExists: os.Stat succeeds
fileExists(files, filePath) == files[filePath].exists

(***************************************************************************)
(* bufio.Writer over a file opened for appending: [buf, file, left, err],  *)
(* file being the file's content, left the writes the disk still accepts,  *)
(* err the writer's sticky error.                                          *)
(***************************************************************************)
bufNew(data, fault) ==
    [buf |-> <<>>, file |-> data, left |-> fault.writes, err |-> FALSE]

\* bufio.Writer.Flush: one file.Write of the buffered bytes
bufFlush(w) ==
    IF w.err \/ w.buf = <<>> THEN w
    ELSE IF w.left = 0 THEN [w EXCEPT !.err = TRUE]
    ELSE [w EXCEPT !.file = @ \o w.buf,
                   !.buf = <<>>,
                   !.left = IF @ > 0 THEN @ - 1 ELSE @]

\* bufio.Writer.WriteString(s): fills the buffer and flushes it while s
\* does not fit; csv.Writer.Write and the xml printer write through it
RECURSIVE bufWrite(_, _)
bufWrite(w, s) ==
    IF w.err THEN w
    ELSE LET avail == BufSize - Len(w.buf) IN
         IF Len(s) <= avail THEN [w EXCEPT !.buf = @ \o s]
         ELSE bufWrite(bufFlush([w EXCEPT !.buf = @ \o SubSeq(s, 1, avail)]),
                       SubSeq(s, avail + 1, Len(s)))

(***************************************************************************)
(* generateSBOM.  module.ModuleCalls is a Go map from the call's name to   *)
(* the call; range visits its entries in an order the language leaves      *)
(* unspecified, given here as `order`, a sequence of the map's keys.       *)
(***************************************************************************)
NoErr == "nil"
NilSBOM == [nil |-> TRUE, Modules |-> <<>>]

Orders(S) ==
    {o \in [1..Cardinality(S) -> S] : \A i, j \in DOMAIN o : o[i] = o[j] => i = j}

\* generateSBOM going on to build an SBOM when the load reported errors
generateSBOMIgnoringErrors(dir, configPath, order) ==
    [sbom |-> [nil |-> FALSE,
               Modules |->
                   [i \in 1..Len(order) |->
                       LET call == dir.ModuleCalls[order[i]] IN
                       ModuleInfo(call.Name, call.Source,
                                  extractVersion(call), configPath)]],
     err |-> NoErr]

generateSBOM(dir, configPath, order) ==
    IF dir.hasErrors
    THEN [sbom |-> NilSBOM, err |-> "failed to load Terraform module"]
    ELSE [sbom |-> [nil |-> FALSE,
                    Modules |->
                        [i \in 1..Len(order) |->
                            LET call == dir.ModuleCalls[order[i]] IN
                            ModuleInfo(call.Name, call.Source,
                                       extractVersion(call), configPath)]],
          err |-> NoErr]

(***************************************************************************)
(* printSBOM: the dump of every record, as what it prints per module.      *)
(***************************************************************************)
printSBOM(mods) ==
    <<[msg |-> "Software Bill of Materials (SBOM) for Terraform configuration",
       records |-> [i \in 1..Len(mods) |-> csvRecord(mods[i])]]>>

Written(outputPath) ==
    <<[msg |-> "SBOM successfully written to", path |-> outputPath]>>

(***************************************************************************)
(* The emitters.  Each returns the file system it leaves, the error it     *)
(* returns, what it prints, and (history) whether a file operation failed. *)
(***************************************************************************)
\* the loop of csv.Writer.Write calls: stops at the first that returns an
\* error; failedAt is that call's index (0: none failed)
RECURSIVE csvWriteAll(_, _, _)
csvWriteAll(w, lines, i) ==
    IF i > Len(lines) THEN [w |-> w, failedAt |-> 0]
    ELSE LET w2 == bufWrite(w, lines[i]) IN
         IF w2.err THEN [w |-> w2, failedAt |-> i]
         ELSE csvWriteAll(w2, lines, i + 1)

csvLines(mods, withHeader) ==
    (IF withHeader THEN <<csvLine(CSVHeader)>> ELSE <<>>)
    \o [i \in 1..Len(mods) |-> csvLine(csvRecord(mods[i]))]

\* writeSBOMToCSV writing the header on every call
writeSBOMToCSVAlwaysHeader(mods, outputPath, files, fault) ==
    LET exists == fileExists(files, outputPath)
        lines == csvLines(mods, TRUE)
        done == csvWriteAll(bufNew(files[outputPath].data, fault), lines, 1)
        closed == bufFlush(done.w)
    IN  IF fault.open
        THEN [fs |-> files, err |-> "failed to open CSV file", out |-> <<>>,
              ioFailed |-> TRUE]
        ELSE [fs |-> [files EXCEPT ![outputPath] = File(closed.file)],
              err |-> IF done.failedAt = 0 THEN NoErr
                      ELSE "failed to write CSV record",
              out |-> IF done.failedAt = 0 THEN Written(outputPath) ELSE <<>>,
              ioFailed |-> closed.err]

\* writeSBOMToCSV opening the file with O_TRUNC instead of O_APPEND
writeSBOMToCSVTruncating(mods, outputPath, files, fault) ==
    LET exists == fileExists(files, outputPath)
        lines == csvLines(mods, ~exists)
        done == csvWriteAll(bufNew(<<>>, fault), lines, 1)
        closed == bufFlush(done.w)
    IN  IF fault.open
        THEN [fs |-> files, err |-> "failed to open CSV file", out |-> <<>>,
              ioFailed |-> TRUE]
        ELSE [fs |-> [files EXCEPT ![outputPath] = File(closed.file)],
              err |-> IF done.failedAt = 0 THEN NoErr
                      ELSE "failed to write CSV record",
              out |-> IF done.failedAt = 0 THEN Written(outputPath) ELSE <<>>,
              ioFailed |-> closed.err]

writeSBOMToCSV(mods, outputPath, files, fault) ==
    LET exists == fileExists(files, outputPath)
        lines == csvLines(mods, ~exists)
        \* os.OpenFile(O_APPEND|O_CREATE|O_WRONLY), csv.NewWriter(file)
        done == csvWriteAll(bufNew(files[outputPath].data, fault), lines, 1)
        \* the deferred writer.Flush(), whose error nobody reads
        closed == bufFlush(done.w)
    IN  IF fault.open
        THEN [fs |-> files, err |-> "failed to open CSV file", out |-> <<>>,
              ioFailed |-> TRUE]
        ELSE [fs |-> [files EXCEPT ![outputPath] = File(closed.file)],
              err |-> IF done.failedAt = 0 THEN NoErr
                      ELSE IF ~exists /\ done.failedAt = 1
                           THEN "failed to write CSV header"
                      ELSE "failed to write CSV record",
              out |-> IF done.failedAt = 0 THEN Written(outputPath) ELSE <<>>,
              ioFailed |-> closed.err]

\* writeSBOMToJSON opening the file for appending instead of os.Create
writeSBOMToJSONAppending(mods, outputPath, files, fault) ==
    IF fault.open
    THEN [fs |-> files, err |-> "failed to create JSON file", out |-> <<>>,
          ioFailed |-> TRUE]
    ELSE IF fault.writes = 0
    THEN [fs |-> [files EXCEPT ![outputPath] = File(files[outputPath].data)],
          err |-> "failed to write JSON file", out |-> <<>>, ioFailed |-> TRUE]
    ELSE [fs |-> [files EXCEPT ![outputPath] =
                      File(files[outputPath].data \o jsonEncode(mods))],
          err |-> NoErr, out |-> Written(outputPath), ioFailed |-> FALSE]

writeSBOMToJSON(mods, outputPath, files, fault) ==
    IF fault.open
    THEN [fs |-> files, err |-> "failed to create JSON file", out |-> <<>>,
          ioFailed |-> TRUE]
    \* os.Create has truncated the file; Encode is one file.Write
    ELSE IF fault.writes = 0
    THEN [fs |-> [files EXCEPT ![outputPath] = File(<<>>)],
          err |-> "failed to write JSON file", out |-> <<>>, ioFailed |-> TRUE]
    ELSE [fs |-> [files EXCEPT ![outputPath] = File(jsonEncode(mods))],
          err |-> NoErr, out |-> Written(outputPath), ioFailed |-> FALSE]

writeSBOMToXML(mods, outputPath, files, fault) ==
    \* os.Create has truncated the file; Encode writes through a
    \* bufio.Writer and returns the error of its final Flush
    LET done == bufFlush(bufWrite(bufNew(<<>>, fault), xmlEncode(mods)))
    IN  IF fault.open
        THEN [fs |-> files, err |-> "failed to create XML file", out |-> <<>>,
              ioFailed |-> TRUE]
        ELSE [fs |-> [files EXCEPT ![outputPath] = File(done.file)],
              err |-> IF done.err THEN "failed to write XML file" ELSE NoErr,
              out |-> IF done.err THEN <<>> ELSE Written(outputPath),
              ioFailed |-> done.err]

(***************************************************************************)
(* The module calls extractVersion is applied to: a source is up to MaxSeg *)
(* segments, among them the marker, the marker cut in two, and the two     *)
(* relative-path prefixes.                                                 *)
(***************************************************************************)
Segments ==
    { RefSep, DotSlash, DotDotSlash, <<"v">>, <<"?">>, <<"r", "e", "f", "=">> }

RECURSIVE Concat(_)
Concat(ss) == IF ss = <<>> THEN <<>> ELSE Head(ss) \o Concat(Tail(ss))

EVSources ==
    { Concat(ss) : ss \in UNION { [1..n -> Segments] : n \in 0..MaxSeg } }

EVVersions == { <<>>, <<"1">>, DotSlash }

EVCalls ==
    { [Name |-> <<"a">>, Source |-> s, Version |-> v] :
        s \in EVSources, v \in EVVersions }

(***************************************************************************)
(* The inputs of the command-line runs: two configuration directories, one *)
(* output path, and module calls whose sources carry a ref, an empty ref,  *)
(* and the characters the three encoders escape.                           *)
(***************************************************************************)
ConfigA == <<"c", "1">>
ConfigB == <<"c", "2">>
ConfigPaths == {ConfigA, ConfigB}
OutPath == <<"o", "1">>
OutPaths == {OutPath}
NameA == <<"a">>
NameB == <<"b">>

SysCalls(name) ==
    { [Name |-> name, Source |-> <<"g", "?", "r", "e", "f", "=", "v">>, Version |-> <<>>],
      [Name |-> name, Source |-> <<"g", "?", "r", "e", "f", "=">>, Version |-> <<>>],
      [Name |-> name, Source |-> <<"h", ",", DQ, "<", "&", BS, LF>>, Version |-> <<"1">>] }

LoadError == [hasErrors |-> TRUE, ModuleCalls |-> <<>>]
Loaded(calls) == [hasErrors |-> FALSE, ModuleCalls |-> calls]

SpecialCall(name) ==
    [Name |-> name, Source |-> <<"h", ",", DQ, "<", "&", BS, LF>>, Version |-> <<"1">>]
RefCall(name) ==
    [Name |-> name, Source |-> <<"g", "?", "r", "e", "f", "=", "v">>, Version |-> <<>>]

\* a directory declaring the two module calls a and b
TwoCallDirs ==
    { Loaded([n \in {NameA, NameB} |-> IF n = NameA THEN ca ELSE SpecialCall(NameB)]) :
        ca \in SysCalls(NameA) }

\* a directory that does not load, declares nothing, or declares one call
OtherDirs ==
    {LoadError, Loaded(<<>>), Loaded([n \in {NameA} |-> RefCall(NameA)])}

\* a file left by something else, whose first row is not the header
StaleData == <<"p", ",", "n", ",", "s", ",", "v", LF>>
InitFiles == {NoFile, File(<<>>), File(StaleData)}

Formats ==
    { <<"c", "s", "v">>, <<"J", "S", "O", "N">>, <<"x", "m", "l">>,
      <<"y", "a", "m", "l">> }

ArgLists ==
    {<<>>} \cup {<<c>> : c \in ConfigPaths}
    \cup {<<c, o>> : c \in ConfigPaths, o \in OutPaths}

Running == -1
NoIO == [emitter |-> "none", fault |-> NoFault, ioFailed |-> FALSE, existed |-> FALSE]
NoCall == [Name |-> <<>>, Source |-> <<>>, Version |-> <<>>]
NoReadBack == [given |-> <<>>, done |-> FALSE, ok |-> FALSE, Modules |-> <<>>]
NoFlags == [verbose |-> FALSE, outputFormat |-> <<"c", "s", "v">>, args |-> <<>>]

Init ==
    /\ modCall = NoCall
    /\ version = NoResult
    /\ \E da \in TwoCallDirs, db \in OtherDirs :
          tfdirs = [c \in ConfigPaths |-> IF c = ConfigA THEN da ELSE db]
    /\ fs \in [OutPaths -> InitFiles]
    /\ pc = "init"
    /\ flags = NoFlags
    /\ sbom = NilSBOM
    /\ err = NoErr
    /\ stdout = <<>>
    /\ exitCode = Running
    /\ runs = 0
    /\ fs0 = fs
    /\ io = NoIO
    /\ built = [c \in ConfigPaths |-> {}]
    /\ csvlog = [p \in OutPaths |-> [valid |-> ~fs[p].exists, sboms |-> <<>>]]
    /\ readBack = NoReadBack

(***************************************************************************)
(* main()                                                                  *)
(***************************************************************************)
configPath == flags.args[1]
outputPath == flags.args[2]

\* flag.Parse and the check of the positional arguments
MainStart ==
    /\ pc \in {"init", "exited"}
    /\ runs < MaxRuns
    /\ \E v \in BOOLEAN, f \in Formats, a \in ArgLists :
          /\ flags' = [verbose |-> v, outputFormat |-> f, args |-> a]
          /\ IF Len(a) < 2
             THEN pc' = "exited" /\ exitCode' = 1
             ELSE pc' = "generate" /\ exitCode' = Running
    /\ runs' = runs + 1
    /\ sbom' = NilSBOM
    /\ err' = NoErr
    /\ stdout' = <<>>
    /\ fs0' = fs
    /\ io' = NoIO
    /\ UNCHANGED <<modCall, version, readBack, tfdirs, fs, built, csvlog>>

\* sbom, err := generateSBOM(configPath), and the fatal exit on an error
MainGenerate ==
    /\ pc = "generate"
    /\ LET dir == tfdirs[configPath] IN
       \E order \in Orders(DOMAIN dir.ModuleCalls) :
          LET r == generateSBOM(dir, configPath, order) IN
          /\ sbom' = r.sbom
          /\ err' = r.err
          /\ IF r.err # NoErr
             THEN pc' = "exited" /\ exitCode' = 1 /\ built' = built
             ELSE /\ pc' = "print"
                  /\ exitCode' = exitCode
                  /\ built' = [built EXCEPT ![configPath] = @ \cup {r.sbom.Modules}]
    /\ UNCHANGED <<modCall, version, readBack, tfdirs, fs, flags, stdout, runs, fs0, io, csvlog>>

\* if *verbose { printSBOM(sbom) }
MainPrint ==
    /\ pc = "print"
    /\ stdout' = IF flags.verbose THEN stdout \o printSBOM(sbom.Modules) ELSE stdout
    /\ pc' = "emit"
    /\ UNCHANGED <<modCall, version, readBack, tfdirs, fs, flags, sbom, err, exitCode,
                   runs, fs0, io, built, csvlog>>

\* the key of the switch on the output format
formatKey == ToLower(flags.outputFormat)

Emitted(name, fault, r) ==
    /\ fs' = r.fs
    /\ err' = r.err
    /\ stdout' = stdout \o r.out
    /\ io' = [emitter |-> name, fault |-> fault, ioFailed |-> r.ioFailed,
              existed |-> fs[outputPath].exists]
    /\ pc' = "check"
    /\ UNCHANGED <<modCall, version, readBack, tfdirs, flags, sbom, exitCode, runs, fs0, built>>

\* case "csv": err = writeSBOMToCSV(sbom, outputPath)
EmitCSV ==
    /\ pc = "emit"
    /\ formatKey = <<"c", "s", "v">>
    /\ \E fault \in Faults :
          LET r == writeSBOMToCSV(sbom.Modules, outputPath, fs, fault) IN
          /\ Emitted("csv", fault, r)
          /\ csvlog' = [csvlog EXCEPT ![outputPath] =
                IF @.valid /\ r.err = NoErr /\ ~r.ioFailed
                THEN [@ EXCEPT !.sboms = Append(@, sbom.Modules)]
                ELSE [valid |-> FALSE, sboms |-> <<>>]]

\* case "json": err = writeSBOMToJSON(sbom, outputPath)
EmitJSON ==
    /\ pc = "emit"
    /\ formatKey = <<"j", "s", "o", "n">>
    /\ \E fault \in Faults :
          LET r == writeSBOMToJSON(sbom.Modules, outputPath, fs, fault) IN
          /\ Emitted("json", fault, r)
          /\ csvlog' = [csvlog EXCEPT ![outputPath] =
                IF fault.open THEN @ ELSE [valid |-> FALSE, sboms |-> <<>>]]

\* case "xml": err = writeSBOMToXML(sbom, outputPath)
EmitXML ==
    /\ pc = "emit"
    /\ formatKey = <<"x", "m", "l">>
    /\ \E fault \in Faults :
          LET r == writeSBOMToXML(sbom.Modules, outputPath, fs, fault) IN
          /\ Emitted("xml", fault, r)
          /\ csvlog' = [csvlog EXCEPT ![outputPath] =
                IF fault.open THEN @ ELSE [valid |-> FALSE, sboms |-> <<>>]]

\* default: log.Fatalf("Unsupported output format ...")
EmitUnsupported ==
    /\ pc = "emit"
    /\ formatKey \notin {<<"c", "s", "v">>, <<"j", "s", "o", "n">>, <<"x", "m", "l">>}
    /\ pc' = "exited"
    /\ exitCode' = 1
    /\ UNCHANGED <<modCall, version, readBack, tfdirs, fs, flags, sbom, err, stdout, runs,
                   fs0, io, built, csvlog>>

\* if err != nil { log.Fatalf("Error writing SBOM ...") }, else main returns
MainFinish ==
    /\ pc = "check"
    /\ exitCode' = IF err # NoErr THEN 1 ELSE 0
    /\ pc' = "exited"
    /\ UNCHANGED <<modCall, version, readBack, tfdirs, fs, flags, sbom, err, stdout, runs,
                   fs0, io, built, csvlog>>

Next ==
    \/ MainStart
    \/ MainGenerate
    \/ MainPrint
    \/ EmitCSV
    \/ EmitJSON
    \/ EmitXML
    \/ EmitUnsupported
    \/ MainFinish

Spec == Init /\ [][Next]_vars

(***************************************************************************)
(* extractVersion on its own, applied to every call of EVCalls.            *)
(***************************************************************************)
InitEV ==
    /\ modCall \in EVCalls
    /\ version = NoResult
    /\ tfdirs = [c \in ConfigPaths |-> LoadError]
    /\ fs = [p \in OutPaths |-> NoFile]
    /\ pc = "init"
    /\ flags = NoFlags
    /\ sbom = NilSBOM
    /\ err = NoErr
    /\ stdout = <<>>
    /\ exitCode = Running
    /\ runs = 0
    /\ fs0 = fs
    /\ io = NoIO
    /\ built = [c \in ConfigPaths |-> {}]
    /\ csvlog = [p \in OutPaths |-> [valid |-> TRUE, sboms |-> <<>>]]
    /\ readBack = NoReadBack

CallExtractVersion ==
    /\ version = NoResult
    /\ version' = extractVersion(modCall)
    /\ UNCHANGED modCall
    /\ UNCHANGED mainVars

NextEV == CallExtractVersion

SpecEV == InitEV /\ [][NextEV]_vars

(***************************************************************************)
(* The tests of the JSON and XML emitters: an SBOM is written to a fresh   *)
(* temporary file, the file is read and unmarshalled, and the records are  *)
(* compared.  The SBOMs hold up to MaxMods records whose strings carry the *)
(* characters the encoders escape, a control character and a byte that is  *)
(* not UTF-8.                                                              *)
(***************************************************************************)
RTSources ==
    { <<>>, <<"s">>, <<"<", "&", DQ>>, <<BS, LF, ">", "'">>, <<SOH>>, <<XFF>> }
RTVersions == { <<>>, <<"v">> }

\* a record whose name, version and configuration path need escaping too
RTEscaped == ModuleInfo(<<"<">>, <<"s">>, <<"&", DQ>>, <<" ", TAB, CR>>)

RTModules ==
    { ModuleInfo(NameA, s, v, ConfigA) : s \in RTSources, v \in RTVersions }
    \cup {RTEscaped}

RTSBOMs == UNION { [1..n -> RTModules] : n \in 0..MaxMods }

InitRT ==
    /\ modCall = NoCall
    /\ version = NoResult
    /\ tfdirs = [c \in ConfigPaths |-> LoadError]
    \* os.CreateTemp has created the file
    /\ fs = [p \in OutPaths |-> File(<<>>)]
    /\ pc = "test"
    /\ flags = NoFlags
    /\ \E mods \in RTSBOMs :
          /\ sbom = [nil |-> FALSE, Modules |-> mods]
          /\ readBack = [NoReadBack EXCEPT !.given = mods]
    /\ err = NoErr
    /\ stdout = <<>>
    /\ exitCode = Running
    /\ runs = 0
    /\ fs0 = fs
    /\ io = NoIO
    /\ built = [c \in ConfigPaths |-> {}]
    /\ csvlog = [p \in OutPaths |-> [valid |-> FALSE, sboms |-> <<>>]]

\* err := writeSBOMTo...(sbom, tmpfile.Name()); t.Fatalf on an error
TestWrote(name, fault, r) ==
    /\ fs' = r.fs
    /\ err' = r.err
    /\ stdout' = stdout \o r.out
    /\ io' = [emitter |-> name, fault |-> fault, ioFailed |-> r.ioFailed,
              existed |-> fs[OutPath].exists]
    /\ pc' = IF r.err = NoErr THEN "written" ELSE "failed"
    /\ UNCHANGED <<modCall, version, readBack, tfdirs, flags, sbom, exitCode,
                   runs, fs0, built, csvlog>>

TestWriteSBOMToJSON ==
    /\ pc = "test"
    /\ \E fault \in Faults :
          TestWrote("json", fault, writeSBOMToJSON(sbom.Modules, OutPath, fs, fault))

TestWriteSBOMToXML ==
    /\ pc = "test"
    /\ \E fault \in Faults :
          TestWrote("xml", fault, writeSBOMToXML(sbom.Modules, OutPath, fs, fault))

\* content, _ := os.ReadFile(tmpfile.Name()); Unmarshal(content, &result)
TestReadBack ==
    /\ pc = "written"
    /\ LET content == fs[OutPath].data
           result == IF io.emitter = "json" THEN jsonUnmarshal(content)
                     ELSE xmlUnmarshal(content)
       IN  readBack' = [readBack EXCEPT !.done = TRUE, !.ok = result.ok,
                                        !.Modules = result.Modules]
    /\ pc' = "read"
    /\ UNCHANGED <<modCall, version, tfdirs, fs, flags, sbom, err, stdout,
                   exitCode, runs, fs0, io, built, csvlog>>

NextRT ==
    \/ TestWriteSBOMToJSON
    \/ TestWriteSBOMToXML
    \/ TestReadBack

SpecRT == InitRT /\ [][NextRT]_vars

(***************************************************************************)
(* Properties of extractVersion, checked under SpecEV.                     *)
(***************************************************************************)
Returned == version # NoResult
AfterFirstRef(source) ==
    SubSeq(source, Index(source, RefSep) + Len(RefSep), Len(source))
IsRelative(source) == HasPrefix(source, DotSlash) \/ HasPrefix(source, DotDotSlash)

\* C1: for a call with no explicit version whose source contains ?ref=,
\* extractVersion returns everything in the source after the first ?ref=,
\* later occurrences of ?ref= and the text after them included.
C1_EverythingAfterFirstRef ==
    (Returned /\ modCall.Version = <<>> /\ Contains(modCall.Source, RefSep))
        => version = AfterFirstRef(modCall.Source)

\* C3: a call whose explicit version is non-empty gets that version back
\* unchanged, whatever its source is.
C3_ExplicitVersionVerbatim ==
    (Returned /\ modCall.Version # <<>>) => version = modCall.Version

\* C3 happens: an explicit version was returned for a source that contains
\* ?ref= and starts with ./
C3_Witness ==
    /\ Returned
    /\ modCall.Version = <<"1">>
    /\ Contains(modCall.Source, RefSep)
    /\ HasPrefix(modCall.Source, DotSlash)
    /\ version = <<"1">>

\* C4: for a call with no explicit version and no ?ref= in its source,
\* extractVersion returns "local" exactly when the source starts with ./ or
\* ../, and "N/A" otherwise.
C4_LocalOrNA ==
    (Returned /\ modCall.Version = <<>> /\ ~Contains(modCall.Source, RefSep))
        => /\ version = Local <=> IsRelative(modCall.Source)
           /\ ~IsRelative(modCall.Source) => version = NA

\* C4 happens: "local" was returned for a source starting with ../, and the
\* marker cut short (ref= without its ?) did not count as a ref
C4_Witness ==
    /\ Returned
    /\ modCall.Version = <<>>
    /\ modCall.Source = DotDotSlash \o <<"r", "e", "f", "=">> \o <<"v">>
    /\ version = Local

(***************************************************************************)
(* Properties of the runs, checked under Spec.                             *)
(***************************************************************************)
Exited == pc = "exited"
ValidFormats == {<<"c", "s", "v">>, <<"j", "s", "o", "n">>, <<"x", "m", "l">>}

\* f names the format key, letter case ignored
NamesFormat(f, key) ==
    /\ Len(f) = Len(key)
    /\ \A i \in 1..Len(key) :
          \/ f[i] = key[i]
          \/ \E k \in 1..Len(LowerCase) : LowerCase[k] = key[i] /\ UpperCase[k] = f[i]

RowsOf(mods) == [i \in 1..Len(mods) |-> csvRecord(mods[i])]

RECURSIVE RowsOfAll(_)
RowsOfAll(sboms) ==
    IF sboms = <<>> THEN <<>> ELSE RowsOf(Head(sboms)) \o RowsOfAll(Tail(sboms))

\* the module call a record of an SBOM was built from
CallOf(mod) == tfdirs[mod.Config].ModuleCalls[mod.Name]

\* C2: every record of every SBOM generateSBOM returns has a non-empty
\* version; a call with no explicit version whose source has nothing after
\* ?ref= gets "local" (source starting with ./ or ../) or "N/A".
C2_VersionNeverEmpty ==
    \A i \in 1..Len(sbom.Modules) :
        LET mod == sbom.Modules[i] IN
        /\ mod.Version # <<>>
        /\ (CallOf(mod).Version = <<>> /\ Contains(mod.Source, RefSep)
                /\ AfterFirstRef(mod.Source) = <<>>)
             => mod.Version = IF IsRelative(mod.Source) THEN Local ELSE NA

\* C5: a successful generateSBOM returns exactly one record per declared
\* module call, and two runs over the same configuration return the same
\* sequence of records in the same order.
C5_OneRecordPerCallSameOrder ==
    /\ \A c \in ConfigPaths : Cardinality(built[c]) <= 1
    /\ ~sbom.nil =>
          LET calls == tfdirs[sbom.Modules[1].Config].ModuleCalls IN
          sbom.Modules # <<>> =>
              /\ Len(sbom.Modules) = Cardinality(DOMAIN calls)
              /\ \A n \in DOMAIN calls :
                    Cardinality({i \in 1..Len(sbom.Modules) :
                                    sbom.Modules[i].Name = n}) = 1

\* the records of this run's SBOM are in the output file
RecordsInFile ==
    LET data == fs[outputPath].data
        mods == sbom.Modules
    IN  CASE io.emitter = "csv" ->
                 LET got == ReadAll(data) IN
                 /\ got.ok
                 /\ Len(got.records) >= Len(mods)
                 /\ SubSeq(got.records, Len(got.records) - Len(mods) + 1,
                           Len(got.records)) = RowsOf(mods)
          [] io.emitter = "json" -> data = jsonEncode(mods)
          [] io.emitter = "xml" -> data = xmlEncode(mods)
          [] OTHER -> FALSE

\* C6: in every run where opening, creating or writing the output file
\* fails (a failure at the flush of the buffered CSV rows included), the
\* emitter returns an error, the success message is not printed and the
\* process exits non-zero; exit code 0 implies the records are in the file.
C6_WriteFailureIsFatal ==
    (Exited /\ io.emitter # "none") =>
        /\ io.ioFailed =>
              /\ err # NoErr
              /\ exitCode # 0
              /\ \A k \in 1..Len(stdout) : stdout[k].msg # "SBOM successfully written to"
        /\ exitCode = 0 => RecordsInFile

\* C7: starting from a path at which no file exists, a sequence of
\* successful CSV writes A, B, ... to that path leaves a file whose rows are
\* the header once, then A's rows in A's order, then B's rows, and so on.
C7_CSVAppendAcrossRuns ==
    \A p \in OutPaths :
        (csvlog[p].valid /\ csvlog[p].sboms # <<>>) =>
            ReadAll(fs[p].data) =
                [ok |-> TRUE, records |-> <<CSVHeader>> \o RowsOfAll(csvlog[p].sboms)]

\* C7 happens: three CSV writes of non-empty SBOMs went to a fresh path, the
\* second from another configuration than the first
C7_Witness ==
    /\ Exited
    /\ csvlog[OutPath].valid
    /\ Len(csvlog[OutPath].sboms) = 3
    /\ \A k \in 1..3 : csvlog[OutPath].sboms[k] # <<>>
    /\ csvlog[OutPath].sboms[1][1].Config # csvlog[OutPath].sboms[2][1].Config

\* the CSV emitter ran in this run and every file operation of it succeeded
CSVWritten == io.emitter = "csv" /\ ~io.ioFailed

\* C8: writeSBOMToCSV writes the header row if and only if no file existed
\* at outputPath when the call started; the previous content stays unchanged
\* as a prefix and only the data rows of the SBOM are appended, so that an
\* SBOM written to a pre-existing empty file reads back as its data rows.
C8_HeaderOnlyWhenCreated ==
    CSVWritten =>
        LET old == fs0[outputPath]
            new == fs[outputPath].data
            added == ReadAll(SubSeq(new, Len(old.data) + 1, Len(new)))
        IN  /\ HasPrefix(new, old.data)
            /\ added.ok
            /\ added.records =
                  (IF old.exists THEN <<>> ELSE <<CSVHeader>>) \o RowsOf(sbom.Modules)
            /\ old = File(<<>>) => ReadAll(new).records = RowsOf(sbom.Modules)

\* C8 happens: a two-record SBOM was appended to a file that existed and
\* did not start with the header
C8_Witness ==
    /\ Exited
    /\ CSVWritten
    /\ fs0[outputPath] = File(StaleData)
    /\ Len(sbom.Modules) = 2

\* C9: a successful JSON (XML) write leaves a file whose content is exactly
\* the serialization of the SBOM just written, whatever the file held.
C9_JSONXMLOverwrite ==
    (io.emitter \in {"json", "xml"} /\ err = NoErr) =>
        fs[outputPath].data =
            IF io.emitter = "json" THEN jsonEncode(sbom.Modules)
            ELSE xmlEncode(sbom.Modules)

\* C9 happens: SBOM B was written as JSON over the JSON of another SBOM A
C9_Witness ==
    /\ Exited
    /\ io.emitter = "json"
    /\ err = NoErr
    /\ sbom.Modules # <<>>
    /\ \E c \in ConfigPaths : \E a \in built[c] :
          /\ a # sbom.Modules
          /\ a # <<>>
          /\ fs0[outputPath] = File(jsonEncode(a))

\* this run ended, or was bound to end, before emission
FatalBeforeEmission ==
    \/ Len(flags.args) < 2
    \/ tfdirs[configPath].hasErrors
    \/ \A key \in ValidFormats : ~NamesFormat(flags.outputFormat, key)

\* C10: a run with fewer than two positional arguments, a configuration
\* that does not load, or an output format other than csv, json or xml
\* (letter case ignored) exits non-zero without invoking an emitter and
\* leaves the file system as it found it; a failed load yields no SBOM.
C10_FatalRunsTouchNothing ==
    (Exited /\ FatalBeforeEmission) =>
        /\ exitCode # 0
        /\ io.emitter = "none"
        /\ fs = fs0
        /\ (Len(flags.args) >= 2 /\ tfdirs[configPath].hasErrors) => sbom = NilSBOM

\* C10 happens: a run on a loadable configuration with the format yaml
\* ended, the output file holding earlier content
C10_Witness ==
    /\ Exited
    /\ Len(flags.args) = 2
    /\ ~tfdirs[configPath].hasErrors
    /\ flags.outputFormat = <<"y", "a", "m", "l">>
    /\ ~sbom.nil
    /\ fs[outputPath].exists
    /\ fs[outputPath].data # <<>>

(***************************************************************************)
(* Properties of the emitter tests, checked under SpecRT.                  *)
(***************************************************************************)
\* the characters of the four fields of the records of mods
AllChars(mods) ==
    LET fields == UNION { {mods[i].Name, mods[i].Source, mods[i].Version,
                           mods[i].Config} : i \in 1..Len(mods) }
    IN  UNION { {f[j] : j \in 1..Len(f)} : f \in fields }

\* a JSON string carries every character, but not a byte that is not
\* UTF-8; XML text carries neither that nor a control character other than
\* tab, line feed and carriage return
Carries(emitter, c) ==
    IF emitter = "json" THEN c # XFF ELSE c \notin {SOH, XFF}

SameRecords(got, mods) ==
    /\ Len(got) = Len(mods)
    /\ \A i \in 1..Len(mods) :
          /\ got[i].Name = mods[i].Name
          /\ got[i].Source = mods[i].Source
          /\ got[i].Version = mods[i].Version
          /\ got[i].Config = mods[i].Config

====
